---- MODULE Spec2Model ----
(***************************************************************************)
(* Model of GrapheTP's src/main.py:                                        *)
(*   - TileManager (get_tile run by the render loop, worker run by the     *)
(*     background threads), with the memory cache, the tile files of       *)
(*     cache_tiles/, the pending list and its lock;                        *)
(*   - the GTFS loaders load_stop_times and load_gtfs_data (stops part);   *)
(*   - format_times_table.                                                 *)
(* Each part has its own specification; the variables of the other parts   *)
(* stay at their initial values.                                           *)
(***************************************************************************)
EXTENDS Integers, Sequences, FiniteSets, TLC

(***************************************************************************)
(* Bounds of the tile model.                                               *)
(***************************************************************************)
NumKeys == 3

NumWorkers == 2

\* The number of keys in view in the fair specification.
ViewKeys == 2

START_ZOOM == 13

\* Python's None, where a key is expected.
None == <<>>

\* The keys (x, y, z) the render loop asks for: NumKeys columns of one row.
TileKeys == {<<x, 0, START_ZOOM>> : x \in 0 .. NumKeys - 1}

\* The threads started by TileManager.__init__.
Workers == 1 .. NumWorkers

\* The render loop's thread, the only caller of get_tile.
Consumer == 0

\* What a tile file can hold: no file, a file opened for writing whose
\* payload is not written yet, a complete image, an undecodable file left by
\* an earlier run.
FileStates == {"absent", "partial", "full", "corrupt"}

(***************************************************************************)
(* Bounds of the GTFS model.                                               *)
(***************************************************************************)
\* The longest stop_times.txt.
MaxRows == 2

\* The longest stops.txt.
MaxStops == 3

\* The longest stop_times.txt where the order of the lists is examined.
MaxSortRows == 3

VARIABLES
    calendar,   \* load_stop_times' argument calendar: service_id -> day flags
    stMissing,  \* the required column stop_times.txt's header lacks, or NoId
    stRows,     \* the rows csv.DictReader yields for stop_times.txt
    ri,         \* the index of the row the loop of line 156 handles next
    stop_times, \* load_stop_times' dictionary stop_times
    lpc,        \* where load_stop_times is
    stopRows,   \* the rows csv.DictReader yields for stops.txt
    si,         \* the index of the row the loop of line 241 handles next
    stops,      \* load_gtfs_data's list stops, as the stop_id of each entry
    stop_info,  \* load_gtfs_data's dictionary stop_info, as its keys
    spc         \* where load_gtfs_data is in its stops part

loadVars == <<calendar, stMissing, stRows, ri, stop_times, lpc>>

stopVars == <<stopRows, si, stops, stop_info, spc>>

(***************************************************************************)
(* Bound of the timetable model.                                           *)
(***************************************************************************)
\* The longest list given to format_times_table.
MaxTimes == 4

VARIABLES
    times_list, \* format_times_table's argument
    fi,         \* the index of the time the loop of line 205 handles next
    grid,       \* format_times_table's dictionary grid
    fpc         \* where format_times_table is

fmtVars == <<times_list, fi, grid, fpc>>

\* The start of main(), lines 268-270: the six GTFS tables are loaded.
VARIABLES
    present,    \* which files gtfs/ holds
    mpc,        \* the table main() is about to load
    data        \* what has been loaded from each table

startVars == <<present, mpc, data>>

(***************************************************************************)
(* Bound of the render loop model: the camera is at a multiple of 1/CamDen  *)
(* of the width of the world, from -1/CamDen to 1 + 1/CamDen.               *)
(***************************************************************************)
CamDen == 4

\* The render loop of main(), lines 289-350.
VARIABLES
    zoom,       \* main's zoom
    cam_x,      \* main's cam_x, in units of 1/CamDen
    cam_y,      \* main's cam_y, in units of 1/CamDen
    rpc,        \* where the render loop is: at its events or in the tile loops
    loopCol,    \* col of the loop of line 343
    loopRow,    \* row of the loop of line 344
    key         \* the key of the latest get_tile call of the frame

renderVars == <<zoom, cam_x, cam_y, rpc, loopCol, loopRow, key>>


VARIABLES
    cache,      \* TileManager.cache: the keys that have a decoded image
    queue,      \* TileManager.queue: a list of keys
    lock,       \* TileManager.lock: the set of threads holding it
    disk,       \* cache_tiles/{z}_{x}_{y}.png for each key
    cpc,        \* where the render loop is inside get_tile
    ckey,       \* get_tile's local variable key, None outside a call
    cAfter,     \* history: the file of ckey was complete when the call tested it
    wpc,        \* where each worker is inside worker()
    task,       \* each worker's local variable task
    enqOrder,   \* history: the queued keys, in the order of their appends
    view,       \* the keys the render loop asks for
    track,      \* whether reqOrder is recorded
    reqOrder    \* history: the queued keys, by their latest get_tile request

callVars == <<cpc, ckey, cAfter>>

\* What no step of the tile manager changes.
fixedVars == <<view, track, loadVars, stopVars, fmtVars, startVars,
               renderVars>>

workerVars == <<wpc, task>>

tileVars == <<cache, queue, lock, disk, callVars, workerVars, enqOrder, view,
              track, reqOrder>>

\* What no step of load_stop_times changes.
loadFixed == <<calendar, stMissing, stRows, tileVars, stopVars, fmtVars,
               startVars, renderVars>>

\* What no step of load_gtfs_data changes.
stopFixed == <<stopRows, tileVars, loadVars, fmtVars, startVars, renderVars>>

\* What no step of format_times_table changes.
fmtFixed == <<times_list, tileVars, loadVars, stopVars, startVars,
              renderVars>>

vars == <<tileVars, loadVars, stopVars, fmtVars, startVars, renderVars>>

Range(s) == {s[i] : i \in 1 .. Len(s)}

Last(s) == s[Len(s)]

Front(s) == SubSeq(s, 1, Len(s) - 1)

Without(s, k) == SelectSeq(s, LAMBDA e : e # k)

\* os.path.exists(filename)
Exists(k) == disk[k] # "absent"

\* pygame.image.load(filename).convert() succeeds
Decodes(k) == disk[k] = "full"

\* The latest-request order after a request of key k.
Requested(k) ==
    IF track /\ k \in Range(reqOrder)
    THEN Append(Without(reqOrder, k), k)
    ELSE reqOrder

(***************************************************************************)
(* TileManager.get_tile, run by the render loop.                           *)
(***************************************************************************)

\* Lines 53-54: the key is in the memory cache; return its image.
GetTileCached(k) ==
    /\ cpc = "idle"
    /\ k \in view
    /\ k \in cache
    /\ reqOrder' = Requested(k)
    /\ UNCHANGED <<cache, queue, lock, disk, callVars, workerVars, enqOrder,
                   fixedVars>>

\* GetTileMiss that puts the key in the memory cache before it has a file.
GetTileMissCaches(k) ==
    /\ cpc = "idle"
    /\ k \in view
    /\ k \notin cache
    /\ cache' = cache \cup {k}
    /\ ckey' = k
    /\ cAfter' = (disk[k] = "full")
    /\ cpc' = IF Exists(k) THEN "load" ELSE "lock"
    /\ reqOrder' = Requested(k)
    /\ UNCHANGED <<queue, lock, disk, workerVars, enqOrder, fixedVars>>

\* Lines 53-59: not in memory; test whether the file exists.
GetTileMiss(k) ==
    /\ cpc = "idle"
    /\ k \in view
    /\ k \notin cache
    /\ ckey' = k
    /\ cAfter' = (disk[k] = "full")
    /\ cpc' = IF Exists(k) THEN "load" ELSE "lock"
    /\ reqOrder' = Requested(k)
    /\ UNCHANGED <<cache, queue, lock, disk, workerVars, enqOrder, fixedVars>>

\* GetTileLoad with an except clause that removes the file it cannot decode.
GetTileLoadRemoves ==
    /\ cpc = "load"
    /\ IF Decodes(ckey)
       THEN /\ cache' = cache \cup {ckey}
            /\ cpc' = "idle"
            /\ ckey' = None
            /\ cAfter' = FALSE
            /\ disk' = disk
       ELSE /\ cpc' = "lock"
            /\ disk' = [disk EXCEPT ![ckey] = "absent"]
            /\ UNCHANGED <<cache, ckey, cAfter>>
    /\ UNCHANGED <<queue, lock, workerVars, enqOrder, fixedVars, reqOrder>>

\* Lines 60-65: decode the file and return the image; a failure falls
\* through to the queue.
GetTileLoad ==
    /\ cpc = "load"
    /\ IF Decodes(ckey)
       THEN /\ cache' = cache \cup {ckey}
            /\ cpc' = "idle"
            /\ ckey' = None
            /\ cAfter' = FALSE
       ELSE /\ cpc' = "lock"
            /\ UNCHANGED <<cache, ckey, cAfter>>
    /\ UNCHANGED <<queue, lock, disk, workerVars, enqOrder, fixedVars, reqOrder>>

\* Line 68: with self.lock (entry).
GetTileAcquire ==
    /\ cpc = "lock"
    /\ lock = {}
    /\ lock' = {Consumer}
    /\ cpc' = "push"
    /\ UNCHANGED <<cache, queue, disk, ckey, cAfter, workerVars, enqOrder,
                   fixedVars, reqOrder>>

\* Pushed without the membership test of line 69.
PushedUnguarded(q, k) == Append(q, k)

\* Lines 69-71: the list after the guarded append.
Pushed(q, k) == IF k \notin Range(q) THEN Append(q, k) ELSE q

\* Lines 69-73: append unless queued, leave the lock, return None.
GetTilePush ==
    /\ cpc = "push"
    /\ lock = {Consumer}
    /\ queue' = Pushed(queue, ckey)
    /\ enqOrder' = IF Len(queue') > Len(queue)
                   THEN Append(enqOrder, ckey)
                   ELSE enqOrder
    /\ reqOrder' = IF track /\ Len(queue') > Len(queue)
                   THEN Append(Without(reqOrder, ckey), ckey)
                   ELSE reqOrder
    /\ lock' = {}
    /\ cpc' = "idle"
    /\ ckey' = None
    /\ cAfter' = FALSE
    /\ UNCHANGED <<cache, disk, workerVars, fixedVars>>

(***************************************************************************)
(* TileManager.worker, run by each worker thread.                          *)
(***************************************************************************)

\* Lines 77-78: task = None; with self.lock (entry).
WorkerAcquire(w) ==
    /\ wpc[w] = "loop"
    /\ lock = {}
    /\ lock' = {w}
    /\ wpc' = [wpc EXCEPT ![w] = "locked"]
    /\ UNCHANGED <<cache, queue, disk, callVars, task, enqOrder, fixedVars,
                   reqOrder>>

\* Pop as queue.pop(0) would do it.
PopOldest(q) == [key |-> Head(q), rest |-> Tail(q)]

\* Line 81: queue.pop(-1), the element it returns and the list it leaves.
Pop(q) == [key |-> Last(q), rest |-> Front(q)]

\* WorkerPop with the rest of the loop body inside the with block: the lock
\* is still held after the pop.
WorkerPopKeepsLock(w) ==
    /\ wpc[w] = "locked"
    /\ lock = {w}
    /\ queue # <<>>
    /\ task' = [task EXCEPT ![w] = Pop(queue).key]
    /\ queue' = Pop(queue).rest
    /\ enqOrder' = Without(enqOrder, task'[w])
    /\ reqOrder' = Without(reqOrder, task'[w])
    /\ wpc' = [wpc EXCEPT ![w] = "check"]
    /\ UNCHANGED <<cache, lock, disk, callVars, fixedVars>>

\* Lines 79-81: pop a key and leave the lock.
WorkerPop(w) ==
    /\ wpc[w] = "locked"
    /\ lock = {w}
    /\ queue # <<>>
    /\ task' = [task EXCEPT ![w] = Pop(queue).key]
    /\ queue' = Pop(queue).rest
    /\ enqOrder' = Without(enqOrder, task'[w])
    /\ reqOrder' = Without(reqOrder, task'[w])
    /\ lock' = {}
    /\ wpc' = [wpc EXCEPT ![w] = "check"]
    /\ UNCHANGED <<cache, disk, callVars, fixedVars>>

\* Lines 79, 83: nothing queued; leave the lock with task = None.
WorkerEmpty(w) ==
    /\ wpc[w] = "locked"
    /\ lock = {w}
    /\ queue = <<>>
    /\ lock' = {}
    /\ wpc' = [wpc EXCEPT ![w] = "wait"]
    /\ UNCHANGED <<cache, queue, disk, callVars, task, enqOrder, fixedVars,
                   reqOrder>>

\* Lines 84-85: pygame.time.wait(20); continue.
WorkerWait(w) ==
    /\ wpc[w] = "wait"
    /\ wpc' = [wpc EXCEPT ![w] = "loop"]
    /\ UNCHANGED <<cache, queue, lock, disk, callVars, task, enqOrder, fixedVars,
                   reqOrder>>

\* WorkerSkip with break for continue: the thread ends.
WorkerSkipBreak(w) ==
    /\ wpc[w] = "check"
    /\ Exists(task[w])
    /\ wpc' = [wpc EXCEPT ![w] = "ended"]
    /\ task' = [task EXCEPT ![w] = None]
    /\ UNCHANGED <<cache, queue, lock, disk, callVars, enqOrder, fixedVars,
                   reqOrder>>

\* Lines 91-92: the file exists already; continue.
WorkerSkip(w) ==
    /\ wpc[w] = "check"
    /\ Exists(task[w])
    /\ wpc' = [wpc EXCEPT ![w] = "loop"]
    /\ task' = [task EXCEPT ![w] = None]
    /\ UNCHANGED <<cache, queue, lock, disk, callVars, enqOrder, fixedVars,
                   reqOrder>>

\* WorkerStartFetch without the test of line 91.
WorkerStartFetchUnchecked(w) ==
    /\ wpc[w] = "check"
    /\ wpc' = [wpc EXCEPT ![w] = "fetch"]
    /\ UNCHANGED <<cache, queue, lock, disk, callVars, task, enqOrder, fixedVars,
                   reqOrder>>

\* Lines 91, 94-96: no file; send the request.
WorkerStartFetch(w) ==
    /\ wpc[w] = "check"
    /\ ~Exists(task[w])
    /\ wpc' = [wpc EXCEPT ![w] = "fetch"]
    /\ UNCHANGED <<cache, queue, lock, disk, callVars, task, enqOrder, fixedVars,
                   reqOrder>>

\* Lines 96-98: status 200; open(filename, "wb") creates or truncates the
\* file, whose payload is not written yet.
WorkerFetchOk(w) ==
    /\ wpc[w] = "fetch"
    /\ disk' = [disk EXCEPT ![task[w]] = "partial"]
    /\ wpc' = [wpc EXCEPT ![w] = "write"]
    /\ UNCHANGED <<cache, queue, lock, callVars, task, enqOrder, fixedVars,
                   reqOrder>>

\* WorkerFetchFail with a retry: the failed key is put back on the list.
WorkerFetchFailRetry(w) ==
    /\ wpc[w] = "fetch"
    /\ wpc' = [wpc EXCEPT ![w] = "dropped"]
    /\ queue' = Pushed(queue, task[w])
    /\ UNCHANGED <<cache, lock, disk, callVars, task, enqOrder, fixedVars,
                   reqOrder>>

\* Lines 96-97, 100-101: timeout, exception or another status.
WorkerFetchFail(w) ==
    /\ wpc[w] = "fetch"
    /\ wpc' = [wpc EXCEPT ![w] = "dropped"]
    /\ UNCHANGED <<cache, queue, lock, disk, callVars, task, enqOrder, fixedVars,
                   reqOrder>>

\* Line 101: pass; back to while True.
WorkerDrop(w) ==
    /\ wpc[w] = "dropped"
    /\ wpc' = [wpc EXCEPT ![w] = "loop"]
    /\ task' = [task EXCEPT ![w] = None]
    /\ UNCHANGED <<cache, queue, lock, disk, callVars, enqOrder, fixedVars,
                   reqOrder>>

\* WorkerWrite that also puts the tile in the memory cache.
WorkerWriteCaches(w) ==
    /\ wpc[w] = "write"
    /\ disk' = [disk EXCEPT ![task[w]] = "full"]
    /\ cache' = cache \cup {task[w]}
    /\ wpc' = [wpc EXCEPT ![w] = "loop"]
    /\ task' = [task EXCEPT ![w] = None]
    /\ UNCHANGED <<queue, lock, callVars, enqOrder, fixedVars, reqOrder>>

\* Line 99: f.write(r.content) and the close that ends the with block.
WorkerWrite(w) ==
    /\ wpc[w] = "write"
    /\ disk' = [disk EXCEPT ![task[w]] = "full"]
    /\ wpc' = [wpc EXCEPT ![w] = "loop"]
    /\ task' = [task EXCEPT ![w] = None]
    /\ UNCHANGED <<cache, queue, lock, callVars, enqOrder, fixedVars, reqOrder>>

WorkerStep(w) ==
    \/ WorkerAcquire(w)
    \/ WorkerPop(w)
    \/ WorkerEmpty(w)
    \/ WorkerWait(w)
    \/ WorkerSkip(w)
    \/ WorkerStartFetch(w)
    \/ WorkerFetchOk(w)
    \/ WorkerFetchFail(w)
    \/ WorkerDrop(w)
    \/ WorkerWrite(w)

\* The steps that finish a get_tile call once it has begun.
GetTileFinish ==
    \/ GetTileLoad
    \/ GetTileAcquire
    \/ GetTilePush

\* TileManager.__init__: empty cache and list, free lock, workers started;
\* cache_tiles/ holds what earlier runs left (complete or undecodable files).
TileInit ==
    /\ cache = {}
    /\ queue = <<>>
    /\ lock = {}
    /\ disk \in [TileKeys -> {"absent", "full", "corrupt"}]
    /\ cpc = "idle"
    /\ ckey = None
    /\ cAfter = FALSE
    /\ wpc = [w \in Workers |-> "loop"]
    /\ task = [w \in Workers |-> None]
    /\ enqOrder = <<>>
    /\ reqOrder = <<>>

TileNext ==
    \/ \E k \in TileKeys : GetTileCached(k)
    \/ \E k \in TileKeys : GetTileMiss(k)
    \/ GetTileFinish
    \/ \E w \in Workers : WorkerStep(w)

(***************************************************************************)
(* The GTFS tables.  A row is what csv.DictReader yields: a field the row   *)
(* is too short for is None.  Identifiers are strings; a time or a          *)
(* coordinate is the sequence of its characters (the empty string is not    *)
(* among the inputs, so that <<>> can stand for None).                      *)
(***************************************************************************)

\* None where an identifier is expected.
NoId == "<None>"

\* None where a time or a number is expected.
NoText == <<>>

T0815 == <<"0", "8", ":", "1", "5", ":", "0", "0">>

T0905 == <<"0", "9", ":", "0", "5", ":", "0", "0">>

T0859 == <<"0", "8", ":", "5", "9", ":", "0", "0">>

T2359 == <<"2", "3", ":", "5", "9", ":", "5", "9">>

\* A departure after midnight of the service day.
T2410 == <<"2", "4", ":", "1", "0", ":", "0", "0">>

\* load_trips_routes_calendar's result trips: trip_id -> route_id, service_id.
\* T3 names a service calendar.txt does not have.
trips ==
    [t \in {"T1", "T2", "T3"} |->
        CASE t = "T1" -> [route_id |-> "R1", service_id |-> "S1"]
          [] t = "T2" -> [route_id |-> "R1", service_id |-> "S2"]
          [] t = "T3" -> [route_id |-> "R2", service_id |-> "SX"]]

WeekDays == {"monday", "tuesday", "wednesday", "thursday", "friday"}

Days == WeekDays \cup {"saturday", "sunday"}

DayTypes == {"weekday", "saturday", "sunday"}

\* The rows of calendar.txt the inputs draw from.
DayPatterns ==
    { [d \in Days |-> IF d \in {"monday", "wednesday", "friday", "saturday"}
                      THEN "1" ELSE "0"],
      [d \in Days |-> IF d = "sunday" THEN "1" ELSE "0"],
      [d \in Days |-> "0"] }

\* The rows of stop_times.txt the inputs draw from.
StopTimeRows ==
    [stop_id : {"A", "B"},
     trip_id : {"T1", "T2", "T3", "TX"},
     departure_time : {T0815, T0905, NoText}]

\* The rows of the stop_times.txt whose lists are examined for their order:
\* one stop, times before and after midnight, the same time on two trips.
SortRows ==
    [stop_id : {"A"},
     trip_id : {"T1", "T2", "T3", "TX"},
     departure_time : {T0859, T0905, T2359, T2410, NoText}]

SeqsUpTo(S, n) == UNION {[1 .. m -> S] : m \in 0 .. n}

(***************************************************************************)
(* load_stop_times(trips, calendar).                                       *)
(***************************************************************************)

\* Line 176: the entry of a new route.
NewRoute == [d \in DayTypes |-> <<>>]

\* Lines 173-176: the dictionary with the entries of stop and route made.
WithEntry(st, stop, route) ==
    LET st1 == IF stop \in DOMAIN st THEN st ELSE st @@ (stop :> <<>>)
    IN  IF route \in DOMAIN st1[stop]
        THEN st1
        ELSE [st1 EXCEPT ![stop] = st1[stop] @@ (route :> NewRoute)]

\* Line 179
is_weekday(service) == \E day \in WeekDays : service[day] = "1"

\* Line 180
is_saturday(service) == service["saturday"] = "1"

\* Line 181
is_sunday(service) == service["sunday"] = "1"

\* Lines 183-188: whether the time is appended to the list of a day type.
Appends(service, d) ==
    CASE d = "weekday" -> is_weekday(service)
      [] d = "saturday" -> is_saturday(service)
      [] d = "sunday" -> is_sunday(service)

\* Lines 173-188: the dictionary after a row that passed both lookups.
Indexed(st, stop, route, service, time) ==
    LET st1 == WithEntry(st, stop, route)
    IN  [st1 EXCEPT ![stop][route] =
            [d \in DayTypes |-> IF Appends(service, d)
                                THEN Append(st1[stop][route][d], time)
                                ELSE st1[stop][route][d]]]

\* The code point of a character of a time.
CharCode(c) ==
    CASE c = "0" -> 48 [] c = "1" -> 49 [] c = "2" -> 50 [] c = "3" -> 51
      [] c = "4" -> 52 [] c = "5" -> 53 [] c = "6" -> 54 [] c = "7" -> 55
      [] c = "8" -> 56 [] c = "9" -> 57 [] c = ":" -> 58 [] OTHER -> 120

\* Python's a < b on strings.
RECURSIVE StrLess(_, _)
StrLess(a, b) ==
    IF b = <<>> THEN FALSE
    ELSE IF a = <<>> THEN TRUE
    ELSE IF CharCode(Head(a)) # CharCode(Head(b))
         THEN CharCode(Head(a)) < CharCode(Head(b))
         ELSE StrLess(Tail(a), Tail(b))

\* list.sort() compares every element of a list of two or more; comparing
\* None raises TypeError.
SortRaises(l) == Len(l) >= 2 /\ \E i \in 1 .. Len(l) : l[i] = NoText

\* The sorted list with one more element, placed after its equals.
RECURSIVE Insert(_, _)
Insert(l, x) ==
    IF l = <<>> THEN <<x>>
    ELSE IF StrLess(x, Head(l)) THEN <<x>> \o l
    ELSE <<Head(l)>> \o Insert(Tail(l), x)

\* Sort as sorted(set(l)) would do it: equal times are kept once.
RECURSIVE SortUnique(_)
SortUnique(l) ==
    IF l = <<>> THEN <<>>
    ELSE IF Last(l) \in Range(Front(l)) THEN SortUnique(Front(l))
    ELSE Insert(SortUnique(Front(l)), Last(l))

\* Line 197: list.sort() on a list of strings.
RECURSIVE Sort(_)
Sort(l) == IF l = <<>> THEN <<>> ELSE Insert(Sort(Front(l)), Last(l))

\* Lines 156-158 or 171: the header lacks a required column, row[...] raises
\* KeyError and line 190 ends the loop.
LoadKeyError ==
    /\ lpc = "rows"
    /\ ri <= Len(stRows)
    /\ stMissing # NoId
    /\ \/ stMissing \in {"stop_id", "trip_id"}
       \/ /\ stRows[ri].trip_id \in DOMAIN trips
          /\ trips[stRows[ri].trip_id].service_id \in DOMAIN calendar
    /\ lpc' = "sort"
    /\ UNCHANGED <<loadFixed, ri, stop_times>>

\* Lines 160-161: the trip is unknown; continue.
LoadSkipTrip ==
    /\ lpc = "rows"
    /\ ri <= Len(stRows)
    /\ stMissing \notin {"stop_id", "trip_id"}
    /\ stRows[ri].trip_id \notin DOMAIN trips
    /\ ri' = ri + 1
    /\ UNCHANGED <<loadFixed, stop_times, lpc>>

\* LoadSkipService with lines 173-176 before the test of line 167: the
\* entries of the stop and the route are made before the row is skipped.
LoadSkipServiceMakesEntry ==
    /\ lpc = "rows"
    /\ ri <= Len(stRows)
    /\ stMissing \notin {"stop_id", "trip_id"}
    /\ stRows[ri].trip_id \in DOMAIN trips
    /\ trips[stRows[ri].trip_id].service_id \notin DOMAIN calendar
    /\ stop_times' = WithEntry(stop_times, stRows[ri].stop_id,
                               trips[stRows[ri].trip_id].route_id)
    /\ ri' = ri + 1
    /\ UNCHANGED <<loadFixed, lpc>>

\* Lines 167-168: the trip's service is unknown; continue.
LoadSkipService ==
    /\ lpc = "rows"
    /\ ri <= Len(stRows)
    /\ stMissing \notin {"stop_id", "trip_id"}
    /\ stRows[ri].trip_id \in DOMAIN trips
    /\ trips[stRows[ri].trip_id].service_id \notin DOMAIN calendar
    /\ ri' = ri + 1
    /\ UNCHANGED <<loadFixed, stop_times, lpc>>

\* Lines 170-188: the row's time goes to the lists of its day types.
LoadIndexRow ==
    /\ lpc = "rows"
    /\ ri <= Len(stRows)
    /\ stMissing = NoId
    /\ stRows[ri].trip_id \in DOMAIN trips
    /\ LET trip_info == trips[stRows[ri].trip_id]
       IN  /\ trip_info.service_id \in DOMAIN calendar
           /\ stop_times' = Indexed(stop_times, stRows[ri].stop_id,
                                    trip_info.route_id,
                                    calendar[trip_info.service_id],
                                    stRows[ri].departure_time)
    /\ ri' = ri + 1
    /\ UNCHANGED <<loadFixed, lpc>>

\* Line 156: no row is left.
LoadRowsEnd ==
    /\ lpc = "rows"
    /\ ri > Len(stRows)
    /\ lpc' = "sort"
    /\ UNCHANGED <<loadFixed, ri, stop_times>>

\* Lines 194-197 raise TypeError: a list of two or more holds None.
LoadSortRaises ==
    /\ lpc = "sort"
    /\ \E s \in DOMAIN stop_times : \E r \in DOMAIN stop_times[s] :
           \E d \in DayTypes : SortRaises(stop_times[s][r][d])
    /\ lpc' = "raised"
    /\ UNCHANGED <<loadFixed, ri, stop_times>>

\* Lines 194-199: every list is sorted and the dictionary returned.
LoadSort ==
    /\ lpc = "sort"
    /\ \A s \in DOMAIN stop_times : \A r \in DOMAIN stop_times[s] :
           \A d \in DayTypes : ~SortRaises(stop_times[s][r][d])
    /\ stop_times' = [s \in DOMAIN stop_times |->
                         [r \in DOMAIN stop_times[s] |->
                             [d \in DayTypes |-> Sort(stop_times[s][r][d])]]]
    /\ lpc' = "done"
    /\ UNCHANGED <<loadFixed, ri>>

\* load_stop_times is not running.
LoadIdle ==
    /\ calendar = <<>>
    /\ stMissing = NoId
    /\ stRows = <<>>
    /\ ri = 1
    /\ stop_times = <<>>
    /\ lpc = "idle"

\* Line 153, on any calendar and any stop_times.txt.
LoadInit ==
    /\ calendar \in [{"S1", "S2"} -> DayPatterns]
    /\ stMissing \in {NoId, "trip_id", "departure_time"}
    /\ stRows \in SeqsUpTo(StopTimeRows, MaxRows)
    /\ ri = 1
    /\ stop_times = <<>>
    /\ lpc = "rows"

\* Line 153, on a calendar where S1 runs on week days and saturdays, and on
\* a stop_times.txt of one stop.
LoadSortInit ==
    /\ calendar \in {c \in [{"S1", "S2"} -> DayPatterns] :
                         is_weekday(c["S1"]) /\ is_saturday(c["S1"])}
    /\ stMissing \in {NoId, "departure_time"}
    /\ stRows \in SeqsUpTo(SortRows, MaxSortRows)
    /\ ri = 1
    /\ stop_times = <<>>
    /\ lpc = "rows"

LoadNext ==
    \/ LoadKeyError
    \/ LoadSkipTrip
    \/ LoadSkipService
    \/ LoadIndexRow
    \/ LoadRowsEnd
    \/ LoadSortRaises
    \/ LoadSort

(***************************************************************************)
(* load_gtfs_data, the stops part (lines 239-253).                         *)
(***************************************************************************)

Digits == {"0", "1", "2", "3", "4", "5", "6", "7", "8", "9"}

\* float(text) returns: text is digits with at most one point (the inputs
\* have no sign, exponent or blank); float(None) raises TypeError.
FloatOk(text) ==
    /\ text # NoText
    /\ \A i \in 1 .. Len(text) : text[i] \in Digits \cup {"."}
    /\ \E i \in 1 .. Len(text) : text[i] \in Digits
    /\ Cardinality({i \in 1 .. Len(text) : text[i] = "."}) <= 1

\* The rows of stops.txt the inputs draw from.
StopRows ==
    [stop_id : {"A", "B"},
     stop_lat : {<<"4", "7", ".", "6">>, <<"a", "b", "c">>, NoText},
     stop_lon : {<<"6", ".", "8">>}]

\* Lines 242-252: the row's coordinates parse; the stop is appended.
StopsAppend ==
    /\ spc = "rows"
    /\ si <= Len(stopRows)
    /\ FloatOk(stopRows[si].stop_lat)
    /\ FloatOk(stopRows[si].stop_lon)
    /\ stops' = Append(stops, stopRows[si].stop_id)
    /\ stop_info' = stop_info \cup {stopRows[si].stop_id}
    /\ si' = si + 1
    /\ UNCHANGED <<stopFixed, spc>>

\* Lines 243, 253: float raises; except: pass ends the loop.
StopsError ==
    /\ spc = "rows"
    /\ si <= Len(stopRows)
    /\ ~(FloatOk(stopRows[si].stop_lat) /\ FloatOk(stopRows[si].stop_lon))
    /\ spc' = "done"
    /\ UNCHANGED <<stopFixed, si, stops, stop_info>>

\* Lines 241, 254: no row is left; return.
StopsEnd ==
    /\ spc = "rows"
    /\ si > Len(stopRows)
    /\ spc' = "done"
    /\ UNCHANGED <<stopFixed, si, stops, stop_info>>

\* load_gtfs_data is not running.
StopsIdle ==
    /\ stopRows = <<>>
    /\ si = 1
    /\ stops = <<>>
    /\ stop_info = {}
    /\ spc = "idle"

\* Lines 220-221, on any stops.txt.
StopsInit ==
    /\ stopRows \in SeqsUpTo(StopRows, MaxStops)
    /\ si = 1
    /\ stops = <<>>
    /\ stop_info = {}
    /\ spc = "rows"

StopsNext ==
    \/ StopsAppend
    \/ StopsError
    \/ StopsEnd

(***************************************************************************)
(* format_times_table(times_list).                                         *)
(***************************************************************************)

HourFrom == 6

HourTo == 22

Hours == HourFrom .. HourTo

F070500 == <<"0", "7", ":", "0", "5", ":", "0", "0">>

F070530 == <<"0", "7", ":", "0", "5", ":", "3", "0">>

F074500 == <<"0", "7", ":", "4", "5", ":", "0", "0">>

F060000 == <<"0", "6", ":", "0", "0", ":", "0", "0">>

F225900 == <<"2", "2", ":", "5", "9", ":", "0", "0">>

F231000 == <<"2", "3", ":", "1", "0", ":", "0", "0">>

F053000 == <<"0", "5", ":", "3", "0", ":", "0", "0">>

F0705 == <<"0", "7", ":", "0", "5">>

F07x500 == <<"0", "7", ":", "x", "5", ":", "0", "0">>

\* The times the inputs draw from; NoText is a None departure time.
TimePool ==
    {F070500, F070530, F074500, F060000, F225900, F231000, F053000, F0705,
     F07x500, NoText}

\* str.split(sep): the fields of text between the separators.
RECURSIVE Split(_, _)
Split(text, sep) ==
    IF \A i \in 1 .. Len(text) : text[i] # sep
    THEN <<text>>
    ELSE LET i == CHOOSE j \in 1 .. Len(text) :
                      text[j] = sep /\ \A l \in 1 .. j - 1 : text[l] # sep
         IN  <<SubSeq(text, 1, i - 1)>> \o Split(SubSeq(text, i + 1, Len(text)), sep)

\* int(field) returns: field is digits (the inputs have no sign or blank).
IntOk(field) == field # <<>> /\ \A i \in 1 .. Len(field) : field[i] \in Digits

\* int(field)
RECURSIVE IntOf(_)
IntOf(field) ==
    IF field = <<>> THEN 0
    ELSE 10 * IntOf(Front(field)) + (CharCode(Last(field)) - CharCode("0"))

\* Line 207 does not raise: three fields, each an integer.
Parses(time_str) ==
    /\ time_str # NoText
    /\ LET fields == Split(time_str, ":")
       IN  Len(fields) = 3 /\ \A i \in 1 .. 3 : IntOk(fields[i])

\* Line 207: h, m, s
hms(time_str) ==
    LET fields == Split(time_str, ":")
    IN  [h |-> IntOf(fields[1]), m |-> IntOf(fields[2]), s |-> IntOf(fields[3])]

\* Line 208
InWindow(h) == HourFrom <= h /\ h <= HourTo

\* sorted(list(S)) on a set of integers.
RECURSIVE SortedSet(_)
SortedSet(S) ==
    IF S = {} THEN <<>>
    ELSE LET x == CHOOSE y \in S : \A z \in S : y <= z
         IN  <<x>> \o SortedSet(S \ {x})

\* The sorted list with one more integer.
RECURSIVE InsertInt(_, _)
InsertInt(l, x) ==
    IF l = <<>> THEN <<x>>
    ELSE IF x < Head(l) THEN <<x>> \o l
    ELSE <<Head(l)>> \o InsertInt(Tail(l), x)

\* sorted(l) on a list of integers.
RECURSIVE SortedList(_)
SortedList(l) == IF l = <<>> THEN <<>> ELSE InsertInt(SortedList(Front(l)), Last(l))

\* Bucket without set(): sorted(grid[h]).
BucketNoDedup(l) == SortedList(l)

\* Line 214: sorted(list(set(grid[h])))
Bucket(l) == SortedSet(Range(l))

\* Lines 206-209: the time parses and its hour is in the window.
FormatAppend ==
    /\ fpc = "loop"
    /\ fi <= Len(times_list)
    /\ Parses(times_list[fi])
    /\ InWindow(hms(times_list[fi]).h)
    /\ grid' = [grid EXCEPT ![hms(times_list[fi]).h] =
                                Append(@, hms(times_list[fi]).m)]
    /\ fi' = fi + 1
    /\ UNCHANGED <<fmtFixed, fpc>>

\* Lines 206-208: the time parses and its hour is outside the window.
FormatOutside ==
    /\ fpc = "loop"
    /\ fi <= Len(times_list)
    /\ Parses(times_list[fi])
    /\ ~InWindow(hms(times_list[fi]).h)
    /\ fi' = fi + 1
    /\ UNCHANGED <<fmtFixed, grid, fpc>>

\* Lines 207, 210-211: the time does not parse; except: pass.
FormatMalformed ==
    /\ fpc = "loop"
    /\ fi <= Len(times_list)
    /\ ~Parses(times_list[fi])
    /\ fi' = fi + 1
    /\ UNCHANGED <<fmtFixed, grid, fpc>>

\* Lines 213-215: every bucket deduplicated and sorted; return.
FormatFinish ==
    /\ fpc = "loop"
    /\ fi > Len(times_list)
    /\ grid' = [h \in Hours |-> Bucket(grid[h])]
    /\ fpc' = "done"
    /\ UNCHANGED <<fmtFixed, fi>>

\* format_times_table is not running.
FormatIdle ==
    /\ times_list = <<>>
    /\ fi = 1
    /\ grid = <<>>
    /\ fpc = "idle"

\* Line 204, on any list of times.
FormatInit ==
    /\ times_list \in SeqsUpTo(TimePool, MaxTimes)
    /\ fi = 1
    /\ grid = [h \in Hours |-> <<>>]
    /\ fpc = "loop"

FormatNext ==
    \/ FormatAppend
    \/ FormatOutside
    \/ FormatMalformed
    \/ FormatFinish

(***************************************************************************)
(* The render loop of main(): the events that move the camera, and the two  *)
(* loops that ask the tile manager for the tiles around the screen.         *)
(***************************************************************************)

WIDTH == 1000

HEIGHT == 800

PRELOAD_MARGIN == 2

TILE_SIZE == 256

\* Line 319: the lowest zoom.
MinZoom == 10

\* Line 318: the highest zoom.
MaxZoom == 19

\* The positions of the camera, on and around the world.
CamGrid == -1 .. CamDen + 1

\* int(a / b) for b > 0: the quotient, rounded towards zero.
Trunc(a, b) == IF a >= 0 THEN a \div b ELSE -((-a) \div b)

\* Line 331: n = 2 ** zoom
TilesAcross == 2 ^ zoom

\* Line 332
world_size == TilesAcross * TILE_SIZE

\* Line 333
screen_tl_x == (cam_x * world_size) \div CamDen - WIDTH \div 2

\* Line 334
screen_tl_y == (cam_y * world_size) \div CamDen - HEIGHT \div 2

\* Line 337
start_col == Trunc(screen_tl_x, TILE_SIZE) - PRELOAD_MARGIN

\* Line 338
end_col == Trunc(screen_tl_x + WIDTH, TILE_SIZE) + 1 + PRELOAD_MARGIN

\* Line 339
start_row == Trunc(screen_tl_y, TILE_SIZE) - PRELOAD_MARGIN

\* Line 340
end_row == Trunc(screen_tl_y + HEIGHT, TILE_SIZE) + 1 + PRELOAD_MARGIN

\* The column as it is, without the wraparound.
tile_col_unwrapped(c, m) == c

\* Line 345: col % n, which Python takes in 0 .. n - 1 for any col.
tile_col(c, m) == c % m

\* Line 318: the wheel is turned up.
EventZoomIn ==
    /\ rpc = "events"
    /\ zoom' = IF zoom + 1 < MaxZoom THEN zoom + 1 ELSE MaxZoom
    /\ UNCHANGED <<cam_x, cam_y, rpc, loopCol, loopRow, key, tileVars,
                   loadVars, stopVars, fmtVars, startVars>>

\* Line 319: the wheel is turned down.
EventZoomOut ==
    /\ rpc = "events"
    /\ zoom' = IF zoom - 1 > MinZoom THEN zoom - 1 ELSE MinZoom
    /\ UNCHANGED <<cam_x, cam_y, rpc, loopCol, loopRow, key, tileVars,
                   loadVars, stopVars, fmtVars, startVars>>

\* Lines 322-327: the mouse is dragged, by any distance.
EventDrag ==
    /\ rpc = "events"
    /\ \E x, y \in CamGrid : cam_x' = x /\ cam_y' = y
    /\ UNCHANGED <<zoom, rpc, loopCol, loopRow, key, tileVars, loadVars,
                   stopVars, fmtVars, startVars>>

\* Lines 329-344: the events are done; the loops begin.
RenderBegin ==
    /\ rpc = "events"
    /\ rpc' = "tiles"
    /\ loopCol' = start_col
    /\ loopRow' = start_row
    /\ key' = None
    /\ UNCHANGED <<zoom, cam_x, cam_y, tileVars, loadVars, stopVars, fmtVars,
                   startVars>>

\* Lines 343-344: the next row, the next column, or the end of the frame.
Advance ==
    IF loopRow + 1 < end_row
    THEN loopRow' = loopRow + 1 /\ UNCHANGED <<loopCol, rpc>>
    ELSE IF loopCol + 1 < end_col
         THEN loopCol' = loopCol + 1 /\ loopRow' = start_row /\ rpc' = rpc
         ELSE rpc' = "events" /\ UNCHANGED <<loopCol, loopRow>>

\* Lines 345-350: the row is on the map; get_tile is called.
RenderGetTile ==
    /\ rpc = "tiles"
    /\ 0 <= loopRow /\ loopRow < TilesAcross
    /\ key' = <<tile_col(loopCol, TilesAcross), loopRow, zoom>>
    /\ Advance
    /\ UNCHANGED <<zoom, cam_x, cam_y, tileVars, loadVars, stopVars, fmtVars,
                   startVars>>

\* Line 348: the row is above or below the map; nothing is asked for.
RenderSkipRow ==
    /\ rpc = "tiles"
    /\ ~(0 <= loopRow /\ loopRow < TilesAcross)
    /\ Advance
    /\ UNCHANGED <<zoom, cam_x, cam_y, key, tileVars, loadVars, stopVars,
                   fmtVars, startVars>>

\* main() is not in its render loop.
RenderIdle ==
    /\ zoom = START_ZOOM
    /\ cam_x = 2
    /\ cam_y = 1
    /\ rpc = "idle"
    /\ loopCol = 0
    /\ loopRow = 0
    /\ key = None

\* Lines 276-277, 288: the camera is over the start position, which is near
\* the middle of the world in x and above the middle in y, at START_ZOOM.
RenderInit ==
    /\ zoom = START_ZOOM
    /\ cam_x = 2
    /\ cam_y = 1
    /\ rpc = "events"
    /\ loopCol = 0
    /\ loopRow = 0
    /\ key = None

RenderNext ==
    \/ EventZoomIn
    \/ EventZoomOut
    \/ EventDrag
    \/ RenderBegin
    \/ RenderGetTile
    \/ RenderSkipRow

(***************************************************************************)
(* The start of main(): load_trips_routes_calendar, load_gtfs_data and      *)
(* load_stop_times, each table in a try block of its own.  The files that   *)
(* exist are well-formed; any of them may be missing.                       *)
(***************************************************************************)

Tables == {"trips", "routes", "calendar", "shapes", "stops", "stop_times"}

\* gtfs/trips.txt
TripsTxt ==
    << [trip_id |-> "T1", route_id |-> "R1", service_id |-> "S1"],
       [trip_id |-> "T2", route_id |-> "R1", service_id |-> "S2"],
       [trip_id |-> "T3", route_id |-> "R2", service_id |-> "SX"] >>

\* gtfs/routes.txt
RoutesTxt ==
    << [route_id |-> "R1", route_short_name |-> "1",
        route_color |-> <<"F", "F", "0", "0", "0", "0">>],
       [route_id |-> "R2", route_short_name |-> "2",
        route_color |-> <<"#", "0", "0", "F", "F", "0", "0">>] >>

\* gtfs/calendar.txt: S1 runs on week days and saturdays, S2 on sundays.
CalendarTxt ==
    << [service_id |-> "S1",
        days |-> [d \in Days |-> IF d \in {"monday", "wednesday", "friday",
                                           "saturday"} THEN "1" ELSE "0"]],
       [service_id |-> "S2",
        days |-> [d \in Days |-> IF d = "sunday" THEN "1" ELSE "0"]] >>

\* gtfs/shapes.txt: the points of shape 1 are out of order, and the numbers
\* 2 and 10 are in the other order as strings.
ShapesTxt ==
    << [shape_id |-> <<"2">>, shape_pt_sequence |-> <<"1">>,
        shape_pt_lat |-> "lat3", shape_pt_lon |-> "lon3"],
       [shape_id |-> <<"1">>, shape_pt_sequence |-> <<"1", "0">>,
        shape_pt_lat |-> "lat2", shape_pt_lon |-> "lon2"],
       [shape_id |-> <<"1">>, shape_pt_sequence |-> <<"2">>,
        shape_pt_lat |-> "lat1", shape_pt_lon |-> "lon1"] >>

\* gtfs/stops.txt
StopsTxt ==
    << [stop_id |-> "A", stop_lat |-> <<"4", "7", ".", "6">>,
        stop_lon |-> <<"6", ".", "8">>],
       [stop_id |-> "B", stop_lat |-> <<"4", "7", ".", "6">>,
        stop_lon |-> <<"6", ".", "8">>] >>

\* gtfs/stop_times.txt
StopTimesTxt ==
    << [stop_id |-> "A", trip_id |-> "T1", departure_time |-> T0905],
       [stop_id |-> "A", trip_id |-> "T2", departure_time |-> T0815],
       [stop_id |-> "A", trip_id |-> "T1", departure_time |-> T0815],
       [stop_id |-> "B", trip_id |-> "T3", departure_time |-> T0815],
       [stop_id |-> "B", trip_id |-> "TX", departure_time |-> T0905] >>

\* The last row of a key in a table: a later assignment to a dictionary
\* entry replaces the earlier one.
LastRow(rows, field, id) ==
    rows[CHOOSE i \in 1 .. Len(rows) :
            /\ rows[i][field] = id
            /\ \A j \in i + 1 .. Len(rows) : rows[j][field] # id]

\* Lines 112-116
TripsOf(rows) ==
    [t \in {rows[i].trip_id : i \in 1 .. Len(rows)} |->
        [route_id |-> LastRow(rows, "trip_id", t).route_id,
         service_id |-> LastRow(rows, "trip_id", t).service_id]]

\* Lines 123-125
ColorOf(color) ==
    IF color # <<>> /\ Head(color) = "#" THEN color ELSE <<"#">> \o color

\* Lines 122-129
RoutesOf(rows) ==
    [r \in {rows[i].route_id : i \in 1 .. Len(rows)} |->
        [short_name |-> LastRow(rows, "route_id", r).route_short_name,
         color |-> ColorOf(LastRow(rows, "route_id", r).route_color)]]

\* Lines 135-144
CalendarOf(rows) ==
    [c \in {rows[i].service_id : i \in 1 .. Len(rows)} |->
        LastRow(rows, "service_id", c).days]

\* Lines 24-29: x is computed from the longitude, y from the latitude.
project(lat, lon) == <<<<"x", lon>>, <<"y", lat>>>>

\* Line 228: the order of the key (shape_id, int(shape_pt_sequence)).
ShapeKeyLess(a, b) ==
    \/ StrLess(a.shape_id, b.shape_id)
    \/ /\ a.shape_id = b.shape_id
       /\ IntOf(a.shape_pt_sequence) < IntOf(b.shape_pt_sequence)

RECURSIVE InsertShapeRow(_, _)
InsertShapeRow(l, x) ==
    IF l = <<>> THEN <<x>>
    ELSE IF ShapeKeyLess(x, Head(l)) THEN <<x>> \o l
    ELSE <<Head(l)>> \o InsertShapeRow(Tail(l), x)

\* Line 228: sorted(list(reader), key=...)
RECURSIVE SortShapeRows(_)
SortShapeRows(l) ==
    IF l = <<>> THEN <<>>
    ELSE InsertShapeRow(SortShapeRows(Front(l)), Last(l))

\* Lines 228-236: the loop over the sorted rows, with its variables shapes,
\* current_shape_id and pts.
RECURSIVE GroupShapes(_, _, _, _)
GroupShapes(rows, shapes, current_shape_id, pts) ==
    IF rows = <<>>
    THEN IF pts # <<>> THEN Append(shapes, pts) ELSE shapes
    ELSE LET row == Head(rows)
             pt == project(row.shape_pt_lat, row.shape_pt_lon)
         IN  IF row.shape_id # current_shape_id
             THEN GroupShapes(Tail(rows),
                              IF pts # <<>> THEN Append(shapes, pts) ELSE shapes,
                              row.shape_id, <<pt>>)
             ELSE GroupShapes(Tail(rows), shapes, current_shape_id,
                              Append(pts, pt))

\* Lines 224-236
ShapesOf(rows) == GroupShapes(SortShapeRows(rows), <<>>, NoText, <<>>)

\* Lines 240-253: the stops up to the first row that does not parse.
RECURSIVE StopsOf(_)
StopsOf(rows) ==
    IF rows = <<>> THEN <<>>
    ELSE IF FloatOk(Head(rows).stop_lat) /\ FloatOk(Head(rows).stop_lon)
         THEN <<Head(rows).stop_id>> \o StopsOf(Tail(rows))
         ELSE <<>>

\* Lines 156-188: the dictionary after the rows, for the trips and the
\* calendar load_stop_times is called with.
RECURSIVE IndexRows(_, _, _, _)
IndexRows(st, rows, tr, cal) ==
    IF rows = <<>> THEN st
    ELSE LET row == Head(rows)
         IN  IF row.trip_id \notin DOMAIN tr
             THEN IndexRows(st, Tail(rows), tr, cal)
             ELSE IF tr[row.trip_id].service_id \notin DOMAIN cal
                  THEN IndexRows(st, Tail(rows), tr, cal)
                  ELSE IndexRows(Indexed(st, row.stop_id,
                                         tr[row.trip_id].route_id,
                                         cal[tr[row.trip_id].service_id],
                                         row.departure_time),
                                 Tail(rows), tr, cal)

\* Lines 194-197
SortAll(st) ==
    [s \in DOMAIN st |->
        [r \in DOMAIN st[s] |-> [d \in DayTypes |-> Sort(st[s][r][d])]]]

\* Lines 106-108, 153, 219-221: every dataset starts empty.
NoData == [t \in Tables |-> <<>>]

\* The table's try block when open() finds the file: the rows are read.
ReadTable(t, next, loaded) ==
    /\ mpc = t
    /\ present[t]
    /\ data' = [data EXCEPT ![t] = loaded]
    /\ mpc' = next
    /\ UNCHANGED <<present, tileVars, loadVars, stopVars, fmtVars, renderVars>>

\* The table's try block when open() raises FileNotFoundError: the except
\* clause ends the block and the dataset stays as it was initialised.
NoTable(t, next) ==
    /\ mpc = t
    /\ ~present[t]
    /\ mpc' = next
    /\ UNCHANGED <<data, present, tileVars, loadVars, stopVars, fmtVars,
                   renderVars>>

\* Lines 110-116
TripsRead == ReadTable("trips", "routes", TripsOf(TripsTxt))

\* Lines 111, 117-118
TripsMissing == NoTable("trips", "routes")

\* Lines 120-129
RoutesRead == ReadTable("routes", "calendar", RoutesOf(RoutesTxt))

\* Lines 121, 130-131
RoutesMissing == NoTable("routes", "calendar")

\* Lines 133-144, 148
CalendarRead == ReadTable("calendar", "shapes", CalendarOf(CalendarTxt))

\* Lines 134, 145-148
CalendarMissing == NoTable("calendar", "shapes")

\* Lines 223-236
ShapesRead == ReadTable("shapes", "stops", ShapesOf(ShapesTxt))

\* One try block around shapes.txt and stops.txt: without shapes.txt the
\* stops are not read.
ShapesMissingSkipsStops == NoTable("shapes", "stop_times")

\* Lines 224, 237
ShapesMissing == NoTable("shapes", "stops")

\* Lines 239-254
StopsRead == ReadTable("stops", "stop_times", StopsOf(StopsTxt))

\* Lines 240, 253-254
StopsMissing == NoTable("stops", "stop_times")

\* Lines 154-199, called with the trips and the calendar loaded before.
StopTimesRead ==
    ReadTable("stop_times", "done",
              SortAll(IndexRows(<<>>, StopTimesTxt, data["trips"],
                                data["calendar"])))

\* Lines 155, 190-199: nothing is indexed, nothing is sorted.
StopTimesMissing == NoTable("stop_times", "done")

\* main() is not at its start.
StartIdle ==
    /\ present = [t \in Tables |-> TRUE]
    /\ mpc = "idle"
    /\ data = NoData

\* Line 268 is about to run, on any set of files in gtfs/.
StartInit ==
    /\ present \in [Tables -> BOOLEAN]
    /\ mpc = "trips"
    /\ data = NoData

StartNext ==
    \/ TripsRead
    \/ TripsMissing
    \/ RoutesRead
    \/ RoutesMissing
    \/ CalendarRead
    \/ CalendarMissing
    \/ ShapesRead
    \/ ShapesMissing
    \/ StopsRead
    \/ StopsMissing
    \/ StopTimesRead
    \/ StopTimesMissing

\* The tile manager as it is before main() calls get_tile.
TileIdle ==
    /\ TileInit
    /\ \A k \in TileKeys : disk[k] = "absent"
    /\ view = {}
    /\ track = FALSE

InitLoad == RenderIdle /\ TileIdle /\ StopsIdle /\ FormatIdle /\ StartIdle /\ LoadInit

SpecLoad == InitLoad /\ [][LoadNext]_vars

InitSort == RenderIdle /\ TileIdle /\ StopsIdle /\ FormatIdle /\ StartIdle /\ LoadSortInit

SpecSort == InitSort /\ [][LoadNext]_vars

InitStops == RenderIdle /\ TileIdle /\ LoadIdle /\ FormatIdle /\ StartIdle /\ StopsInit

SpecStops == InitStops /\ [][StopsNext]_vars

InitFormat == RenderIdle /\ TileIdle /\ LoadIdle /\ StopsIdle /\ StartIdle /\ FormatInit

InitStart == RenderIdle /\ TileIdle /\ LoadIdle /\ StopsIdle /\ FormatIdle /\ StartInit

SpecStart == InitStart /\ [][StartNext]_vars

InitRender ==
    TileIdle /\ LoadIdle /\ StopsIdle /\ FormatIdle /\ StartIdle /\ RenderInit

SpecRender == InitRender /\ [][RenderNext]_vars

SpecFormat == InitFormat /\ [][FormatNext]_vars

Init ==
    /\ TileInit
    /\ view = TileKeys
    /\ track = FALSE
    /\ LoadIdle
    /\ StopsIdle
    /\ FormatIdle
    /\ StartIdle
    /\ RenderIdle

Next == TileNext

Spec == Init /\ [][Next]_vars

\* The tile model with the latest-request order recorded.
InitReq ==
    /\ TileInit
    /\ view = TileKeys
    /\ track = TRUE
    /\ LoadIdle
    /\ StopsIdle
    /\ FormatIdle
    /\ StartIdle
    /\ RenderIdle

SpecReq == InitReq /\ [][Next]_vars

\* The scheduling of the threads: a worker that can take a step takes one,
\* a worker waiting for the lock gets it when the lock is released again and
\* again (it is only held for an append or a pop), and a get_tile call that
\* has begun runs to its return; nothing makes the render loop call get_tile.
Fairness ==
    /\ \A w \in Workers : WF_vars(WorkerStep(w))
    /\ \A w \in Workers : SF_vars(WorkerAcquire(w))
    /\ WF_vars(GetTileFinish)

\* The tile model started on an empty cache_tiles/.
InitFair ==
    /\ TileInit
    /\ \A k \in TileKeys : disk[k] = "absent"
    /\ view = {<<x, 0, START_ZOOM>> : x \in 0 .. ViewKeys - 1}
    /\ track = FALSE
    /\ LoadIdle
    /\ StopsIdle
    /\ FormatIdle
    /\ StartIdle
    /\ RenderIdle

SpecFair == InitFair /\ [][Next]_vars /\ Fairness

(***************************************************************************)
(* Properties of the tile manager.                                         *)
(***************************************************************************)

K0 == <<0, 0, START_ZOOM>>

K1 == <<1, 0, START_ZOOM>>

K2 == <<2, 0, START_ZOOM>>

InQueue(k) == k \in Range(queue)

\* C1: in every reachable state, whatever the interleaving of get_tile calls
\* and worker pops, no key occurs more than once in TileManager.queue.
C1_NoDuplicateInQueue ==
    \A i, j \in 1 .. Len(queue) : queue[i] = queue[j] => i = j

\* C1 witness: get_tile is about to run the guarded append for a key that is
\* queued already, other keys are queued and a worker has popped one.
C1_Witness ==
    /\ cpc = "push"
    /\ InQueue(ckey)
    /\ Len(queue) >= 2
    /\ \E w \in Workers : wpc[w] = "check"

\* C2: a get_tile(K) call that tested K's file after a worker had written it
\* completely returns the image: it never reaches the enqueue branch (where
\* it would push K and return None), and no worker decides to fetch K while
\* that call runs.
C2_WrittenTileIsServed ==
    cAfter =>
        /\ cpc \notin {"lock", "push"}
        /\ \A w \in Workers : ~(wpc[w] = "check" /\ task[w] = ckey /\ ~Exists(ckey))

\* C3: a pop takes the key appended most recently among the queued keys.
C3_PopIsLastPushed ==
    [][\A w \in Workers :
          (wpc[w] = "locked" /\ wpc'[w] = "check") => task'[w] = Last(enqOrder)]_vars

\* C3 witness: K0, K1, K2 were appended in this order and a worker has popped
\* K2, leaving K0 and K1.
C3_Witness ==
    \E w \in Workers :
        /\ wpc[w] = "check"
        /\ task[w] = K2
        /\ queue = <<K0, K1>>
        /\ enqOrder = <<K0, K1>>

\* C4: a worker that has popped a key whose file exists but cannot be decoded
\* fetches it again.
C4_CorruptFileIsRefetched ==
    [][\A w \in Workers :
          (wpc[w] = "check" /\ disk[task[w]] = "corrupt" /\ wpc'[w] # "check")
              => wpc'[w] = "fetch"]_vars

\* C5 as stated: every queued key is eventually popped by a worker, which
\* then finishes with it (write, skip or dropped failure), whatever further
\* get_tile calls are made.
C5_QueuedIsEventuallyServiced ==
    \A k \in TileKeys : InQueue(k) ~> ~InQueue(k)

\* Line 71 appends a key in this step.
AppendStep == cpc = "push" /\ Len(queue') > Len(queue)

\* C5 amended: every queued key is eventually popped, unless keys keep being
\* appended to the list for ever; and a worker that has popped a key finishes
\* with it (write, skip or dropped failure) and is back at its loop.
C5_ServicedWhenAppendsStop ==
    /\ \A k \in TileKeys :
           []<><<AppendStep>>_vars \/ (InQueue(k) ~> ~InQueue(k))
    /\ \A w \in Workers : (task[w] # None) ~> (wpc[w] = "loop")

\* C5 witness: two keys were queued, no get_tile call runs, and both keys
\* have been popped: one worker is fetching the first, the other has failed
\* to fetch the second.
C5_Witness ==
    /\ queue = <<>>
    /\ cpc = "idle"
    /\ \E w, v \in Workers :
           /\ wpc[w] = "fetch" /\ task[w] = K0
           /\ wpc[v] = "dropped" /\ task[v] = K1

\* C6 as stated: when the fetch of K has failed, K is in none of memory, disk
\* and queue, so that the next get_tile(K) enqueues it.
C6_FailedKeyIsNowhere ==
    \A w \in Workers :
        wpc[w] = "dropped" =>
            /\ task[w] \notin cache
            /\ ~Exists(task[w])
            /\ ~InQueue(task[w])

\* C6 amended: a failed fetch changes neither the queue, nor the disk, nor
\* the memory cache, and the worker goes back to popping; a get_tile(K) that
\* finds K in none of memory, disk and queue appends K and returns None.
C6_FailureDropsTask ==
    [][/\ \A w \in Workers :
            /\ (wpc[w] = "fetch" /\ wpc'[w] = "dropped")
                   => /\ UNCHANGED <<cache, queue, disk>>
                      /\ task'[w] = task[w]
            /\ (wpc[w] = "dropped" /\ wpc'[w] # "dropped")
                   => /\ wpc'[w] = "loop"
                      /\ UNCHANGED <<cache, queue, disk>>
       /\ \A k \in TileKeys :
            /\ (cpc = "idle" /\ ckey' = k /\ k \notin cache /\ ~Exists(k))
                   => cpc' = "lock"
            /\ (cpc = "push" /\ ckey = k /\ ~InQueue(k) /\ cpc' = "idle")
                   => queue' = Append(queue, k)]_vars

\* C6 witness: the fetch of a key has failed, the key is in none of memory,
\* disk and queue, and get_tile is about to append it again.
C6_Witness ==
    \E w \in Workers :
        /\ wpc[w] = "dropped"
        /\ task[w] \notin cache
        /\ ~Exists(task[w])
        /\ ~InQueue(task[w])
        /\ cpc = "push"
        /\ ckey = task[w]

\* C10: a pop takes the queued key whose latest get_tile request is the most
\* recent one, also when a queued key was requested again after other keys
\* were appended.
C10_PopIsLastRequested ==
    [][\A w \in Workers :
          (wpc[w] = "locked" /\ wpc'[w] = "check") => task'[w] = Last(reqOrder)]_vars

\* C11: the lock is held only for an append or a pop.  A worker holds it only
\* between the entry of its with block and the pop (or the empty test), never
\* while it tests the file, fetches, writes or waits; the render loop holds it
\* only for the guarded append, never while it tests or decodes the file.  So
\* the holder get_tile may wait for is never in a fetch.
C11_LockOnlyForPushOrPop ==
    /\ \A w \in Workers :
           /\ w \in lock => wpc[w] = "locked"
           /\ wpc[w] \in {"loop", "wait", "check", "fetch", "dropped", "write"}
                  => w \notin lock
    /\ Consumer \in lock => cpc = "push"
    /\ cpc \in {"idle", "load", "lock"} => Consumer \notin lock
    /\ (cpc = "lock" /\ lock # {})
           => \E w \in Workers : lock = {w} /\ wpc[w] = "locked"

\* C11 witness: get_tile waits for the lock, which a worker holds for its
\* pop, while the other worker is in a network fetch.
C11_Witness ==
    /\ cpc = "lock"
    /\ \E w, v \in Workers :
           /\ lock = {w}
           /\ wpc[w] = "locked"
           /\ wpc[v] = "fetch"

\* C13: a worker's write of a fetched tile is atomic: in no reachable state
\* does the file of a key exist (os.path.exists true) while it holds only a
\* part, or nothing, of the payload a worker fetched for it.
C13_WriteIsAtomic ==
    \A k \in TileKeys : Exists(k) => disk[k] # "partial"

\* C14: no worker step changes TileManager.cache.  The only step that changes
\* it is get_tile's, after it has decoded the file of its key: it adds that
\* key, and no worker moves in that step.
C14_OnlyGetTileChangesCache ==
    [][cache' # cache =>
          /\ cpc = "load"
          /\ Decodes(ckey)
          /\ cache' = cache \cup {ckey}
          /\ cpc' = "idle"
          /\ UNCHANGED <<wpc, task, disk, queue>>]_vars

\* C14 witness: get_tile has put a tile in the memory cache, and the workers
\* are at work on other keys: one has fetched and is writing, the other has
\* popped a key.
C14_Witness ==
    /\ cache = {K0}
    /\ \E w, v \in Workers :
           /\ wpc[w] = "write" /\ task[w] = K1
           /\ wpc[v] = "check" /\ task[v] = K2

\* C16: a worker that has popped a key tests whether the key's file exists
\* before it fetches.  If the file exists at that test, the worker neither
\* fetches nor writes for that key and is back at its loop for the next pop;
\* a fetch only ever begins at that test, on a key without a file, and a
\* write only ever follows a fetch.
C16_ExistingFileIsNotFetched ==
    [][\A w \in Workers :
          /\ (wpc[w] = "check" /\ Exists(task[w]) /\ wpc'[w] # "check")
                 => /\ wpc'[w] = "loop"
                    /\ task'[w] = None
                    /\ disk' = disk
          /\ (wpc'[w] = "fetch" /\ wpc[w] # "fetch")
                 => /\ wpc[w] = "check"
                    /\ ~Exists(task[w])
                    /\ task'[w] = task[w]
          /\ (wpc'[w] = "write" /\ wpc[w] # "write") => wpc[w] = "fetch"
          /\ (wpc[w] = "locked" /\ task'[w] # None) => wpc'[w] = "check"]_vars

\* C16 witness: a worker has popped K0 and is at the test while K0's file,
\* which the other worker fetched, is complete; the other worker has popped
\* K1, which has no file, and is at its test too.
C16_Witness ==
    \E w, v \in Workers :
        /\ wpc[w] = "check" /\ task[w] = K0 /\ disk[K0] = "full"
        /\ wpc[v] = "check" /\ task[v] = K1 /\ disk[K1] = "absent"
        /\ K0 \notin cache

\* C17: a key can be queued, or fetched by a second worker, while a worker
\* is fetching it, and this costs nothing but network fetches: the file
\* stored for a key is the key's payload from then on, so a step never turns
\* a complete file into anything else, and get_tile never finds less than the
\* payload in a file that was complete.
C17_RaceOnlyCostsFetches ==
    [][\A k \in TileKeys : disk[k] = "full" => disk'[k] = "full"]_vars

\* C18: nothing is removed in-process.  A tile file that exists still exists
\* after every get_tile step and every worker step, and a key that is in the
\* memory cache is still in it.
C18_NothingIsRemoved ==
    [][/\ \A k \in TileKeys : Exists(k) => Exists(k)'
       /\ cache \subseteq cache']_vars

\* C18 witness: K0 is in the memory cache and on disk, get_tile is at a file
\* it cannot decode, and a worker is in the middle of writing a file.
C18_Witness ==
    /\ K0 \in cache
    /\ disk[K0] = "full"
    /\ cpc = "load"
    /\ disk[ckey] = "corrupt"
    /\ \E w \in Workers : wpc[w] = "write" /\ disk[task[w]] = "partial"

\* C21: in every reachable state, under any interleaving of get_tile calls
\* and worker steps, every key of the memory cache has its file on disk.
C21_CacheWithinDisk ==
    \A k \in cache : Exists(k)

\* C21 witness: K0 is in the memory cache while a worker that fetched K0 a
\* second time has opened its file again and not yet written it; K1, whose
\* file was there at the start, is in the memory cache too.
C21_Witness ==
    /\ cache = {K0, K1}
    /\ disk[K0] = "partial"
    /\ disk[K1] = "full"
    /\ \E w \in Workers : wpc[w] = "write" /\ task[w] = K0

(***************************************************************************)
(* Properties of the GTFS loaders and of format_times_table.               *)
(***************************************************************************)

Count(l, x) == Cardinality({i \in 1 .. Len(l) : l[i] = x})

\* The list load_stop_times returns for a stop, a route and a day type;
\* empty when there is none, or when the call raised.
Returned(stop, route, d) ==
    IF lpc = "done" /\ stop \in DOMAIN stop_times
                    /\ route \in DOMAIN stop_times[stop]
    THEN stop_times[stop][route][d]
    ELSE <<>>

\* The day types a service is active on, as C7 states them.
ActiveOn(service, d) ==
    CASE d = "weekday" -> \/ service["monday"] = "1"
                          \/ service["tuesday"] = "1"
                          \/ service["wednesday"] = "1"
                          \/ service["thursday"] = "1"
                          \/ service["friday"] = "1"
      [] d = "saturday" -> service["saturday"] = "1"
      [] d = "sunday" -> service["sunday"] = "1"

\* The rows of a complete stop_times.txt that have the stop, the route and
\* the time, a known trip and service, and a service active on the day type.
RowsFor(stop, route, d, time) ==
    {i \in 1 .. Len(stRows) :
        /\ stRows[i].stop_id = stop
        /\ stRows[i].departure_time = time
        /\ stRows[i].trip_id \in DOMAIN trips
        /\ trips[stRows[i].trip_id].route_id = route
        /\ trips[stRows[i].trip_id].service_id \in DOMAIN calendar
        /\ ActiveOn(calendar[trips[stRows[i].trip_id].service_id], d)}

\* C7: once load_stop_times has ended, the list of a stop, a route and a day
\* type holds a departure time once for every row of that stop, route and
\* time whose trip and service are known and whose service is active on that
\* day type, and holds it for no other row.
C7_TimesUnderActiveDayTypes ==
    (lpc \in {"done", "raised"} /\ stMissing = NoId) =>
        \A stop \in {"A", "B"}, route \in {"R1", "R2"}, d \in DayTypes,
           time \in {T0815, T0905} :
            Count(Returned(stop, route, d), time)
                = Cardinality(RowsFor(stop, route, d, time))

\* What C7 states, for the calls that return.
JoinWhenReturned == lpc = "raised" \/ C7_TimesUnderActiveDayTypes

\* What the times of the inputs mean, in seconds from the midnight that
\* begins the service day.
Seconds(t) ==
    CASE t = T0815 -> 8 * 3600 + 15 * 60
      [] t = T0859 -> 8 * 3600 + 59 * 60
      [] t = T0905 -> 9 * 3600 + 5 * 60
      [] t = T2359 -> 23 * 3600 + 59 * 60 + 59
      [] t = T2410 -> 24 * 3600 + 10 * 60

\* C12: in the dictionary load_stop_times returns, every list is in ascending
\* time order, with every time of 24:00:00 or later behind every time up to
\* 23:59:59, and holds each departure time as many times as it was appended
\* to the list (equal times of distinct trips are all kept).
C12_ListsAreSortedPermutations ==
    lpc = "done" =>
        \A stop \in DOMAIN stop_times : \A route \in DOMAIN stop_times[stop] :
            \A d \in DayTypes :
                LET l == stop_times[stop][route][d]
                IN  /\ \A i, j \in 1 .. Len(l) :
                           i < j => Seconds(l[i]) <= Seconds(l[j])
                    /\ \A i, j \in 1 .. Len(l) :
                           (Len(l) >= 2 /\ Seconds(l[i]) >= 24 * 3600
                                        /\ Seconds(l[j]) < 24 * 3600) => j < i
                    /\ stMissing = NoId =>
                           \A time \in {T0859, T0905, T2359, T2410, NoText} :
                               Count(l, time)
                                   = Cardinality(RowsFor(stop, route, d, time))

\* C12 witness: 24:10:00 of trip T1, 23:59:59 and 24:10:00 of trip T2, read
\* in this order, are returned as 23:59:59, 24:10:00, 24:10:00.
C12_Witness ==
    /\ lpc = "done"
    /\ Len(stRows) = 3
    /\ stRows[1] = [stop_id |-> "A", trip_id |-> "T1", departure_time |-> T2410]
    /\ stRows[2] = [stop_id |-> "A", trip_id |-> "T2", departure_time |-> T2359]
    /\ stRows[3] = [stop_id |-> "A", trip_id |-> "T2", departure_time |-> T2410]
    /\ "A" \in DOMAIN stop_times
    /\ stop_times["A"]["R1"]["weekday"] = <<T2359, T2410, T2410>>

\* What each table holds, written out: the dataset its loader is to return
\* when the file is there.  The departures of stop A on route R1 are those of
\* T1 (week days and saturdays) and T2 (sundays); T3's service and trip TX
\* are unknown.
Expected(t) ==
    CASE t = "trips" ->
            [x \in {"T1", "T2", "T3"} |->
                CASE x = "T1" -> [route_id |-> "R1", service_id |-> "S1"]
                  [] x = "T2" -> [route_id |-> "R1", service_id |-> "S2"]
                  [] x = "T3" -> [route_id |-> "R2", service_id |-> "SX"]]
      [] t = "routes" ->
            [x \in {"R1", "R2"} |->
                IF x = "R1"
                THEN [short_name |-> "1",
                      color |-> <<"#", "F", "F", "0", "0", "0", "0">>]
                ELSE [short_name |-> "2",
                      color |-> <<"#", "0", "0", "F", "F", "0", "0">>]]
      [] t = "calendar" ->
            [x \in {"S1", "S2"} |->
                [d \in Days |->
                    IF x = "S1"
                    THEN IF d \in {"monday", "wednesday", "friday", "saturday"}
                         THEN "1" ELSE "0"
                    ELSE IF d = "sunday" THEN "1" ELSE "0"]]
      [] t = "shapes" ->
            << << <<<<"x", "lon1">>, <<"y", "lat1">>>>,
                  <<<<"x", "lon2">>, <<"y", "lat2">>>> >>,
               << <<<<"x", "lon3">>, <<"y", "lat3">>>> >> >>
      [] t = "stops" -> <<"A", "B">>
      [] t = "stop_times" ->
            IF present["trips"] /\ present["calendar"]
            THEN [x \in {"A"} |-> [y \in {"R1"} |->
                     [d \in DayTypes |->
                         IF d = "sunday" THEN <<T0815>>
                         ELSE <<T0815, T0905>>]]]
            ELSE <<>>

\* C15: when main() has loaded the tables, the dataset of every missing
\* table is empty and the dataset of every table that is there is complete,
\* whichever other tables are missing: without shapes.txt the shapes are
\* empty and every stop of stops.txt is loaded.
C15_MissingTableIsEmptyDataset ==
    mpc = "done" =>
        \A t \in Tables :
            data[t] = IF present[t] THEN Expected(t) ELSE <<>>

\* C15 witness: shapes.txt and routes.txt are missing, the other tables are
\* there and loaded, the stops among them.
C15_Witness ==
    /\ mpc = "done"
    /\ ~present["shapes"]
    /\ ~present["routes"]
    /\ \A t \in Tables \ {"shapes", "routes"} : present[t]
    /\ data["shapes"] = <<>>
    /\ data["stops"] = <<"A", "B">>
    /\ "A" \in DOMAIN data["stop_times"]

\* A key of the tile grid: the zoom is one main() allows, the column and the
\* row are within the 2^zoom tiles of that zoom.
ValidKey(k) ==
    /\ k[3] \in 10 .. 19
    /\ 0 <= k[1] /\ k[1] < 2 ^ k[3]
    /\ 0 <= k[2] /\ k[2] < 2 ^ k[3]

\* C19: every key the render loop passes to get_tile has its column and its
\* row in 0 .. 2^zoom - 1, wherever the camera is and whatever zoom events
\* came before; the zoom stays within 10 .. 19.
C19_RequestedKeysAreValid ==
    /\ zoom \in 10 .. 19
    /\ key # None => ValidKey(key)

\* C19 witness: at the highest zoom, with the camera on the left edge of the
\* world, get_tile was called for a column left of the world, which is the
\* last column of the grid.
C19_Witness ==
    /\ zoom = 19
    /\ cam_x = 0
    /\ rpc = "tiles"
    /\ loopCol < 0
    /\ key # None
    /\ key[1] = 2 ^ 19 + loopCol
    /\ key[3] = 19

\* The row names a trip trips.txt does not have, or a trip whose service
\* calendar.txt does not have.
Dangling(r) ==
    \/ r.trip_id \notin DOMAIN trips
    \/ trips[r.trip_id].service_id \notin DOMAIN calendar

\* The rows load_stop_times has handled so far, without the dangling ones.
HandledNotDangling ==
    SelectSeq(SubSeq(stRows, 1, ri - 1), LAMBDA r : ~Dangling(r))

\* C20: the dangling rows of stop_times.txt add nothing to the index and take
\* nothing from it.  The index is at every moment the one the other rows
\* handled so far give (sorted once the function has returned), and it has an
\* entry for a stop, and for a route of a stop, only if some row that is not
\* dangling has that stop and that route.
C20_DanglingRowsAddNothing ==
    (stMissing = NoId /\ lpc \in {"rows", "sort", "raised", "done"}) =>
        /\ LET idx == IndexRows(<<>>, HandledNotDangling, trips, calendar)
           IN  stop_times = IF lpc = "done" THEN SortAll(idx) ELSE idx
        /\ \A stop \in DOMAIN stop_times :
               /\ \E i \in 1 .. ri - 1 :
                      stRows[i].stop_id = stop /\ ~Dangling(stRows[i])
               /\ \A route \in DOMAIN stop_times[stop] :
                      \E i \in 1 .. ri - 1 :
                          /\ stRows[i].stop_id = stop
                          /\ ~Dangling(stRows[i])
                          /\ trips[stRows[i].trip_id].route_id = route

\* C20 witness: the row of stop B names T3, whose service is unknown, the row
\* of stop A that follows it names T1; the index has A's time and no entry
\* for B or for T3's route.
C20_Witness ==
    /\ lpc = "done"
    /\ stMissing = NoId
    /\ stRows = << [stop_id |-> "B", trip_id |-> "T3", departure_time |-> T0815],
                   [stop_id |-> "A", trip_id |-> "T1", departure_time |-> T0905] >>
    /\ DOMAIN stop_times = {"A"}
    /\ DOMAIN stop_times["A"] = {"R1"}
    /\ stop_times["A"]["R1"]["weekday"] = <<T0905>>

LatGood == <<"4", "7", ".", "6">>

\* C8: once the stops part of load_gtfs_data has ended, every row of
\* stops.txt whose fields are all there and parse has been loaded, whatever
\* malformed rows come before it.
C8_WellFormedRowsAreLoaded ==
    spc = "done" =>
        \A id \in {"A", "B"} :
            Count(stops, id)
                = Cardinality({i \in 1 .. Len(stopRows) :
                                  /\ stopRows[i].stop_id = id
                                  /\ stopRows[i].stop_lat = LatGood})

\* What the times of the inputs mean: whether the text is a time, its hour
\* and its minute.
Meaning(t) ==
    CASE t = F070500 -> [ok |-> TRUE, h |-> 7, m |-> 5]
      [] t = F070530 -> [ok |-> TRUE, h |-> 7, m |-> 5]
      [] t = F074500 -> [ok |-> TRUE, h |-> 7, m |-> 45]
      [] t = F060000 -> [ok |-> TRUE, h |-> 6, m |-> 0]
      [] t = F225900 -> [ok |-> TRUE, h |-> 22, m |-> 59]
      [] t = F231000 -> [ok |-> TRUE, h |-> 23, m |-> 10]
      [] t = F053000 -> [ok |-> TRUE, h |-> 5, m |-> 30]
      [] OTHER -> [ok |-> FALSE, h |-> 0, m |-> 0]

\* C9: the table format_times_table returns has the hours 6..22, and the
\* list of each hour is ascending, without duplicates, and holds exactly the
\* minutes of the well-formed input times of that hour; the other input
\* times change nothing.
C9_GridIsSortedSetOfMinutes ==
    fpc = "done" =>
        /\ DOMAIN grid = 6 .. 22
        /\ \A h \in 6 .. 22 :
            /\ \A i, j \in 1 .. Len(grid[h]) : i < j => grid[h][i] < grid[h][j]
            /\ Range(grid[h])
                 = {Meaning(t).m : t \in {u \in Range(times_list) :
                                            Meaning(u).ok /\ Meaning(u).h = h}}

\* C9 witness: the call has returned on a list with two times of the same
\* hour and minute, a later time of that hour before them and a time outside
\* the window.
C9_Witness ==
    /\ fpc = "done"
    /\ times_list = <<F074500, F070500, F231000, F070530>>
    /\ grid[7] = <<5, 45>>
    /\ \A h \in (6 .. 22) \ {7} : grid[h] = <<>>

TypeOK ==
    /\ cache \subseteq TileKeys
    /\ queue \in Seq(TileKeys)
    /\ lock \in {{}} \cup {{t} : t \in {Consumer} \cup Workers}
    /\ disk \in [TileKeys -> FileStates]
    /\ cpc \in {"idle", "load", "lock", "push"}
    /\ wpc \in [Workers -> {"loop", "locked", "wait", "check", "fetch",
                            "dropped", "write"}]
    /\ task \in [Workers -> TileKeys \cup {None}]
====
